---- MODULE Spec2Model ----
(***************************************************************************)
(* Model of HttpTrigger/__init__.py: the HTTP entry point `main`, the      *)
(* per-sheet analysis loop of `process_excel_file`, and the report builder *)
(* `create_summary_excel`.                                                 *)
(*                                                                         *)
(* Python values are tagged records; each tag has its own field name so    *)
(* that values of different Python types are simply unequal:               *)
(*   None -> [none], int -> [int], float -> [float] (in thousandths),      *)
(*   float('nan') -> [nan], str -> [str].                                  *)
(* A dict is a sequence of [k, v] entries in insertion order.              *)
(***************************************************************************)
EXTENDS Integers, Sequences, FiniteSets, TLC

VARIABLES
    pc,         \* position of the request in main / process_excel_file / create_summary_excel
    req,        \* the request body (req.get_json())
    xls,        \* the sheets of pd.ExcelFile(excel_file), in workbook order
    i,          \* index of the next sheet of `for sheet_name in sheet_names`
    results,    \* the `results` dict of process_excel_file
    all_data,   \* the `all_data` dict of process_excel_file: sheet name -> DataFrame
    wb,         \* the openpyxl Workbook of create_summary_excel: a sequence of worksheets
    row,        \* the `row` cursor of the Summary_Statistics loop
    j,          \* index of the next dict item in the loops of create_summary_excel
    called,     \* whether process_excel_file has been entered
    exc,        \* the exception caught by main's handler, or NoExc
    response    \* the func.HttpResponse returned by main, or NoResponse

vars == <<pc, req, xls, i, results, all_data, wb, row, j, called, exc, response>>

----------------------------------------------------------------------------
(* Bounds of the model *)

MaxSheets == 3
MaxCols == 2
MaxRows == 21

(* Constants of the program *)

ChartRowLimit == 20
WidthPad == 2
WidthCap == 50

(* floats are fixed-point numbers with three decimals *)
Scale == 1000

----------------------------------------------------------------------------
(* Python values *)

NoneV == [none |-> TRUE]
IntV(n) == [int |-> n]
FloatV(m) == [float |-> m]
NaN == [nan |-> TRUE]
StrV(s) == [str |-> s]

IsNone(x) == DOMAIN x = {"none"}
IsInt(x) == DOMAIN x = {"int"}
IsFloat(x) == DOMAIN x = {"float"}
IsNaN(x) == DOMAIN x = {"nan"}
IsStr(x) == DOMAIN x = {"str"}

Min(a, b) == IF a <= b THEN a ELSE b

(* the value of a number in thousandths *)
Milli(x) == IF IsInt(x) THEN x.int * Scale ELSE x.float

(* float(x) *)
PyFloat(x) == IF IsNaN(x) THEN NaN ELSE FloatV(Milli(x))

RECURSIVE DecLen(_)
(* number of decimal digits of n >= 0 *)
DecLen(n) == IF n < 10 THEN 1 ELSE 1 + DecLen(n \div 10)

Abs(n) == IF n < 0 THEN -n ELSE n

(* number of digits str() prints after the point of a float with three decimals *)
FracLen(m) ==
    LET f == Abs(m) % Scale IN
    IF f % 100 = 0 THEN 1 ELSE IF f % 10 = 0 THEN 2 ELSE 3

(* len(str(x)) *)
PyStrLen(x) ==
    IF IsNone(x) THEN 4
    ELSE IF IsNaN(x) THEN 3
    ELSE IF IsStr(x) THEN Len(x.str)
    ELSE IF IsInt(x) THEN (IF x.int < 0 THEN 1 ELSE 0) + DecLen(Abs(x.int))
    ELSE (IF x.float < 0 THEN 1 ELSE 0) + DecLen(Abs(x.float) \div Scale) + 1 + FracLen(x.float)

(* round(x, 2) of a float: to the nearest hundredth, ties to the even one *)
PyRound2(x) ==
    IF ~IsFloat(x) THEN x
    ELSE LET m == x.float
             q == Abs(m) \div 10
             r == Abs(m) % 10
             up == r > 5 \/ (r = 5 /\ q % 2 = 1)
             a == (IF up THEN q + 1 ELSE q) * 10
         IN  FloatV(IF m < 0 THEN -a ELSE a)

----------------------------------------------------------------------------
(* dicts: insertion-ordered sequences of [k, v] *)

EmptyDict == <<>>
DictKeys(d) == [n \in 1..Len(d) |-> d[n].k]
DictKeySet(d) == {d[n].k : n \in 1..Len(d)}
DictHas(d, key) == key \in DictKeySet(d)
DictGet(d, key) == (CHOOSE n \in 1..Len(d) : d[n].k = key) \* index
DictVal(d, key) == d[DictGet(d, key)].v
(* d[key] = val : an existing key keeps its place *)
DictSet(d, key, val) ==
    IF DictHas(d, key)
    THEN [n \in 1..Len(d) |-> IF d[n].k = key THEN [k |-> key, v |-> val] ELSE d[n]]
    ELSE Append(d, [k |-> key, v |-> val])

----------------------------------------------------------------------------
(* pandas: a DataFrame is [columns |-> <<[name, dtype, vals]>>, nrows |-> n] *)

ColumnIndex(df, name) == CHOOSE c \in 1..Len(df.columns) : df.columns[c].name = name
Column(df, name) == df.columns[ColumnIndex(df, name)]

(* df.select_dtypes(include=['number']).columns.tolist() *)
IsNumberDtype(dtype) == dtype \in {"int64", "float64"}
SelectNumber(df) ==
    LET num == SelectSeq(df.columns, LAMBDA c : IsNumberDtype(c.dtype))
    IN  [n \in 1..Len(num) |-> num[n].name]

(* Series.dropna() *)
DropNa(vals) == SelectSeq(vals, LAMBDA x : ~IsNaN(x))

RECURSIVE SumMilli(_)
SumMilli(vals) == IF vals = <<>> THEN 0 ELSE Milli(Head(vals)) + SumMilli(Tail(vals))

RECURSIVE SumSqDev(_, _)
(* sum of squared deviations from m, in millionths *)
SumSqDev(vals, m) ==
    IF vals = <<>> THEN 0
    ELSE (Milli(Head(vals)) - m) * (Milli(Head(vals)) - m) + SumSqDev(Tail(vals), m)

RECURSIVE ISqrtIn(_, _, _)
(* the greatest r in lo..hi with r * r <= x *)
ISqrtIn(x, lo, hi) ==
    IF lo >= hi THEN lo
    ELSE LET mid == (lo + hi + 1) \div 2
         IN  IF mid * mid <= x THEN ISqrtIn(x, mid, hi) ELSE ISqrtIn(x, lo, mid - 1)
ISqrt(x) == ISqrtIn(x, 0, 46340)

RECURSIVE InsertSorted(_, _)
InsertSorted(m, sorted) ==
    IF sorted = <<>> THEN <<m>>
    ELSE IF m <= Head(sorted) THEN <<m>> \o sorted
    ELSE <<Head(sorted)>> \o InsertSorted(m, Tail(sorted))
RECURSIVE SortMilli(_)
SortMilli(vals) ==
    IF vals = <<>> THEN <<>> ELSE InsertSorted(Milli(Head(vals)), SortMilli(Tail(vals)))

(* Series.mean(), .median(), .std(), .min(), .max() of a series without missing values *)
SeriesMean(vals) == FloatV(SumMilli(vals) \div Len(vals))
SeriesMedian(vals) ==
    LET s == SortMilli(vals)
        n == Len(s)
    IN  FloatV(IF n % 2 = 1 THEN s[(n + 1) \div 2] ELSE (s[n \div 2] + s[n \div 2 + 1]) \div 2)
SeriesStd(vals) ==
    IF Len(vals) < 2 THEN NaN
    ELSE FloatV(ISqrt(SumSqDev(vals, SumMilli(vals) \div Len(vals)) \div (Len(vals) - 1)))
SeriesMin(vals) == LET s == SortMilli(vals) IN FloatV(s[1])
SeriesMax(vals) == LET s == SortMilli(vals) IN FloatV(s[Len(s)])

(* the dict of lines 84-91 for one column's col_data *)
StdNoGuard(col_data) == PyFloat(SeriesStd(col_data))
StdOrZero(col_data) == IF Len(col_data) > 1 THEN PyFloat(SeriesStd(col_data)) ELSE IntV(0)
ColumnStats(col_data) ==
    [mean |-> PyFloat(SeriesMean(col_data)),
     median |-> PyFloat(SeriesMedian(col_data)),
     std |-> StdOrZero(col_data),
     min |-> PyFloat(SeriesMin(col_data)),
     max |-> PyFloat(SeriesMax(col_data)),
     count |-> IntV(Len(col_data))]

RECURSIVE SheetStatsFrom(_, _, _)
(* the loop of lines 81-91 over numeric_cols, from sheet_stats = acc *)
SheetStatsFrom(df, numeric_cols, acc) ==
    IF numeric_cols = <<>> THEN acc
    ELSE LET col == Head(numeric_cols)
             col_data == DropNa(Column(df, col).vals)
         IN  SheetStatsFrom(df, Tail(numeric_cols),
                 IF Len(col_data) > 0 THEN DictSet(acc, col, ColumnStats(col_data)) ELSE acc)
SheetStats(df) == SheetStatsFrom(df, SelectNumber(df), EmptyDict)

----------------------------------------------------------------------------
(* The inputs: workbooks as pandas reads them *)

LongText == "A description that is a good deal longer than fifty characters."
IllegalText == "form\\x0bfeed"
(* openpyxl's ILLEGAL_CHARACTERS_RE matches the text (IllegalCharacterError on write) *)
HasIllegalCharacter(x) == IsStr(x) /\ x.str = IllegalText

ColKinds == {"int", "gap", "nan", "text", "long", "ctrl"}
KindName(kind) ==
    CASE kind = "int" -> "Revenue"
      [] kind = "gap" -> "Qty"
      [] kind = "nan" -> "Empty"
      [] kind = "text" -> "Notes"
      [] kind = "long" -> "Description"
      [] kind = "ctrl" -> "Raw"
(* pandas infers object for a column without rows, int64 for whole numbers without     *)
(* blanks, float64 for numbers with blanks or fractions and for a column of blanks only *)
KindDtype(kind, n) ==
    IF n = 0 THEN "object"
    ELSE CASE kind = "int" -> "int64"
           [] kind \in {"gap", "nan"} -> "float64"
           [] OTHER -> "object"
KindValue(kind, r) ==
    CASE kind = "int" -> IntV(10 * (((r - 1) % 3) + 1))
      [] kind = "gap" -> IF r % 2 = 1 THEN FloatV(2500 * ((((r - 1) \div 2) % 3) + 1)) ELSE NaN
      [] kind = "nan" -> NaN
      [] kind = "text" -> StrV(IF r % 2 = 1 THEN "ok" ELSE "checked")
      [] kind = "long" -> StrV(IF r = 1 THEN LongText ELSE "short")
      [] kind = "ctrl" -> StrV(IF r = 2 THEN IllegalText ELSE "raw")
MkColumn(kind, n) ==
    [name |-> KindName(kind), dtype |-> KindDtype(kind, n), vals |-> [r \in 1..n |-> KindValue(kind, r)]]
Table(n, kinds) == [columns |-> [c \in 1..Len(kinds) |-> MkColumn(kinds[c], n)], nrows |-> n]

RowCounts == {0, 1, 2, 3, MaxRows - 2, MaxRows - 1, MaxRows}
KindSeqs ==
    UNION {{ks \in [1..n -> ColKinds] : \A a, b \in 1..n : a # b => ks[a] # ks[b]} : n \in 1..MaxCols}
(* pandas trims the blank rows that end a sheet: the last row holds a value *)
LastRowHasValue(df) ==
    df.nrows = 0 \/ \E c \in 1..Len(df.columns) : ~IsNaN(df.columns[c].vals[df.nrows])
RichTables ==
    {df \in {Table(n, ks) : n \in RowCounts, ks \in KindSeqs} : LastRowHasValue(df)}
    \cup {Table(0, <<>>)}
SmallTables ==
    {Table(3, <<"int", "text">>), Table(1, <<"gap">>), Table(2, <<"text">>), Table(2, <<"nan", "text">>)}

(* a sheet of the workbook: what pd.read_excel gives for it, and where its processing raises *)
GoodSheet(df) == [raises |-> "none", msg |-> "", df |-> df]
SmallSheets ==
    {GoodSheet(df) : df \in SmallTables}
    \cup {[raises |-> "read", msg |-> "boom", df |-> Table(0, <<>>)],
          [raises |-> "stats", msg |-> "bad value", df |-> Table(3, <<"int">>)]}
SheetNames == <<"Sales", "Bad", "Notes", "Q4", "Archive">>
Named(sheets) == [n \in 1..Len(sheets) |-> [name |-> SheetNames[n]] @@ sheets[n]]
SmallWorkbooks == UNION {{Named(w) : w \in [1..n -> SmallSheets]} : n \in 0..MaxSheets}
RichWorkbooks == {<<[name |-> "Data"] @@ GoodSheet(df)>> : df \in RichTables}

(* base64 and the bytes it carries *)
B64Encode(bytes) == [b64 |-> bytes]
BadBase64 == [badb64 |-> TRUE]
EmptyBytes == [empty |-> TRUE]
(* b64decode("") is b"" *)
CanB64Decode(content) == DOMAIN content = {"b64"} \/ content = StrV("")
B64Decode(content) == IF content = StrV("") THEN EmptyBytes ELSE content.b64
WorkbookBytes(sheets) == [workbook |-> sheets]
Garbage == [garbage |-> TRUE]
IsWorkbook(bytes) == DOMAIN bytes = {"workbook"}

BadJson == [badjson |-> TRUE]
ErrorContents == {NoneV, StrV(""), BadBase64, B64Encode(Garbage)}
Requests ==
    {BadJson}
    \cup {[filename |-> f, content |-> c] :
            f \in {NoneV, StrV("book.xlsx")},
            c \in ErrorContents \cup {B64Encode(WorkbookBytes(w)) : w \in {v \in SmallWorkbooks : Len(v) <= 1}}}
    \cup {[filename |-> StrV("book.xlsx"), content |-> B64Encode(WorkbookBytes(w))] :
            w \in SmallWorkbooks \cup RichWorkbooks}

----------------------------------------------------------------------------
(* main *)

NoResponse == [none |-> TRUE]
NoExc == [none |-> TRUE]
Raised(msg) == [raised |-> msg]

(* func.HttpResponse(json.dumps(body), status_code=status) *)
JsonDumps(body) == [json |-> body]
HttpResponse(body, status) == [body |-> JsonDumps(body), status_code |-> status]

(* req_body.get('filename', 'input.xlsx') *)
FilenameOf(req_body) == IF IsNone(req_body.filename) THEN "input.xlsx" ELSE req_body.filename.str

(* `not file_content` *)
IsFalsyOrNone(file_content) == IsNone(file_content)
IsFalsy(file_content) == IsNone(file_content) \/ file_content = StrV("")

Init ==
    /\ pc = "main"
    /\ req \in Requests
    /\ xls = <<>>
    /\ i = 0
    /\ results = [none |-> TRUE]
    /\ all_data = EmptyDict
    /\ wb = <<>>
    /\ row = 0
    /\ j = 0
    /\ called = FALSE
    /\ exc = NoExc
    /\ response = NoResponse

(* lines 41-47: the handler of main's try *)
Except(msg) ==
    /\ exc' = Raised(msg)
    /\ response' = HttpResponse([error |-> msg], 500)
    /\ pc' = "done"

(* line 16: req.get_json() raises on a body that is not JSON *)
MainBadJson ==
    /\ pc = "main"
    /\ req = BadJson
    /\ Except("HTTP request does not contain valid JSON data")
    /\ UNCHANGED <<req, xls, i, results, all_data, wb, row, j, called>>

(* lines 22-27 *)
MainNoContent ==
    /\ pc = "main"
    /\ req # BadJson
    /\ IsFalsy(req.content)
    /\ response' = HttpResponse([error |-> "No file content provided"], 400)
    /\ pc' = "done"
    /\ UNCHANGED <<req, xls, i, results, all_data, wb, row, j, called, exc>>

(* line 30: base64.b64decode raises *)
MainBadBase64 ==
    /\ pc = "main"
    /\ req # BadJson
    /\ ~IsFalsy(req.content)
    /\ ~CanB64Decode(req.content)
    /\ Except("Incorrect padding")
    /\ UNCHANGED <<req, xls, i, results, all_data, wb, row, j, called>>

----------------------------------------------------------------------------
(* process_excel_file *)

(* lines 33, 53-56: pd.ExcelFile raises on bytes that are no workbook *)
OpenWorkbookFails ==
    /\ pc = "main"
    /\ req # BadJson
    /\ ~IsFalsy(req.content)
    /\ CanB64Decode(req.content)
    /\ ~IsWorkbook(B64Decode(req.content))
    /\ called' = TRUE
    /\ Except("Excel file format cannot be determined")
    /\ UNCHANGED <<req, xls, i, results, all_data, wb, row, j>>

(* lines 33, 53-67 *)
OpenWorkbook ==
    /\ pc = "main"
    /\ req # BadJson
    /\ ~IsFalsy(req.content)
    /\ CanB64Decode(req.content)
    /\ IsWorkbook(B64Decode(req.content))
    /\ called' = TRUE
    /\ xls' = B64Decode(req.content).workbook
    /\ results' = [filename |-> FilenameOf(req), sheets_processed |-> <<>>,
                   summary |-> EmptyDict, charts_created |-> FALSE]
    /\ all_data' = EmptyDict
    /\ i' = 1
    /\ pc' = "loop"
    /\ UNCHANGED <<req, wb, row, j, exc, response>>

(* the f-string of line 98 *)
Annotated(sheet_name, msg) == sheet_name \o " (ERROR: " \o msg \o ")"

(* lines 97-98, on the state st = [results, all_data] *)
ExceptSheetAndStore(st, sheet) ==
    [st EXCEPT !.results.sheets_processed = Append(@, Annotated(sheet.name, sheet.msg)),
               !.results.summary = DictSet(@, sheet.name, EmptyDict)]
ExceptSheet(st, sheet) ==
    [st EXCEPT !.results.sheets_processed = Append(@, Annotated(sheet.name, sheet.msg))]

(* lines 93-95 *)
StoreSheetWithStats(st, sheet, sheet_stats) ==
    [results |-> [st.results EXCEPT !.summary = DictSet(@, sheet.name, sheet_stats),
                                    !.sheets_processed = Append(@, sheet.name)],
     all_data |-> IF sheet_stats # EmptyDict THEN DictSet(st.all_data, sheet.name, sheet.df)
                  ELSE st.all_data]
StoreSheet(st, sheet, sheet_stats) ==
    [results |-> [st.results EXCEPT !.summary = DictSet(@, sheet.name, sheet_stats),
                                    !.sheets_processed = Append(@, sheet.name)],
     all_data |-> DictSet(st.all_data, sheet.name, sheet.df)]

(* lines 71-98: one iteration of the loop over sheet_names *)
IterateSheetStoreFirst(st, sheet) ==
    IF sheet.raises = "read" THEN ExceptSheet(st, sheet)
    ELSE IF SelectNumber(sheet.df) = <<>> THEN st
    ELSE IF sheet.raises = "stats"
         THEN ExceptSheet([st EXCEPT !.results.summary = DictSet(@, sheet.name, EmptyDict)], sheet)
    ELSE StoreSheet(st, sheet, SheetStats(sheet.df))
IterateSheet(st, sheet) ==
    IF sheet.raises = "read" THEN ExceptSheet(st, sheet)
    ELSE LET df == sheet.df
             numeric_cols == SelectNumber(df)
         IN  IF numeric_cols # <<>>
             THEN IF sheet.raises = "stats" THEN ExceptSheet(st, sheet)
                  ELSE StoreSheet(st, sheet, SheetStats(df))
             ELSE st

ProcessSheet ==
    /\ pc = "loop"
    /\ i <= Len(xls)
    /\ LET st == IterateSheet([results |-> results, all_data |-> all_data], xls[i])
       IN  /\ results' = st.results
           /\ all_data' = st.all_data
    /\ i' = i + 1
    /\ UNCHANGED <<pc, req, xls, wb, row, j, called, exc, response>>

----------------------------------------------------------------------------
(* create_summary_excel *)

(* openpyxl: a worksheet is [title, cells, charts, widths]; cells maps <<row, column>> *)
(* of every cell written to [value, fill, font]                                         *)
NoFill == "none"
header_fill == "366092"
DefaultFont == [color |-> "000000", bold |-> FALSE, size |-> 11]
header_font == [color |-> "FFFFFF", bold |-> TRUE, size |-> 11]
title_font == [color |-> "000000", bold |-> TRUE, size |-> 14]

CreateSheet(title) == [title |-> title, cells |-> <<>>, charts |-> <<>>, widths |-> <<>>]
PlainCell(value) == [value |-> value, fill |-> NoFill, font |-> DefaultFont]
HeaderCell(value) == [value |-> value, fill |-> header_fill, font |-> header_font]
TitleCell(value) == [value |-> value, fill |-> NoFill, font |-> title_font]
SetCell(ws, r, c, cell) == [ws EXCEPT !.cells = [p \in {<<r, c>>} |-> cell] @@ @]

(* writes cells[c] at column c of row r, for every c *)
SetRow(ws, r, cells) ==
    [ws EXCEPT !.cells = [p \in {<<r, c>> : c \in 1..Len(cells)} |-> cells[p[2]]] @@ @]

MaxOf(S) == IF S = {} THEN 0 ELSE CHOOSE m \in S : \A n \in S : n <= m
MaxRow(ws) == MaxOf({p[1] : p \in DOMAIN ws.cells})
MaxColumn(ws) == MaxOf({p[2] : p \in DOMAIN ws.cells})
CellValue(ws, r, c) == IF <<r, c>> \in DOMAIN ws.cells THEN ws.cells[<<r, c>>].value ELSE NoneV

headers == <<"Column", "Mean", "Median", "Std Dev", "Min", "Max", "Count">>

(* lines 143-149: the cells of one data row *)
StatsRow(col_name, col_stats) ==
    <<PlainCell(StrV(col_name)),
      PlainCell(PyRound2(col_stats.mean)),
      PlainCell(PyRound2(col_stats.median)),
      PlainCell(PyRound2(col_stats.std)),
      PlainCell(PyRound2(col_stats.min)),
      PlainCell(PyRound2(col_stats.max)),
      PlainCell(col_stats.count)>>

(* lines 142-150, the rows of the items of stats, the first at row r: [ws, row] *)
StatsRows(ws, r, stats) ==
    [ws |-> [ws EXCEPT !.cells =
                [p \in (r..(r + Len(stats) - 1)) \X (1..Len(headers)) |->
                    StatsRow(stats[p[1] - r + 1].k, stats[p[1] - r + 1].v)[p[2]]] @@ @],
     row |-> r + Len(stats)]

(* lines 128-152: one iteration of the loop over summary_data.items(): [ws, row] *)
SummaryBlockTight(ws, r, sheet_name, stats) ==
    LET titled == SetCell(ws, r, 1, TitleCell(StrV("Sheet: " \o sheet_name)))
        headed == SetRow(titled, r + 2, [n \in 1..Len(headers) |-> HeaderCell(StrV(headers[n]))])
        filled == StatsRows(headed, r + 3, stats)
    IN  [ws |-> filled.ws, row |-> filled.row + 1]
SummaryBlock(ws, r, sheet_name, stats) ==
    LET titled == SetCell(ws, r, 1, TitleCell(StrV("Sheet: " \o sheet_name)))
        headed == SetRow(titled, r + 2, [n \in 1..Len(headers) |-> HeaderCell(StrV(headers[n]))])
        filled == StatsRows(headed, r + 2 + 1, stats)
    IN  [ws |-> filled.ws, row |-> filled.row + 2]

(* df.values: one common dtype for the whole frame *)
ValuesDtype(df) ==
    LET dtypes == {df.columns[c].dtype : c \in 1..Len(df.columns)}
    IN  IF "object" \in dtypes THEN "object"
        ELSE IF "float64" \in dtypes THEN "float64"
        ELSE "int64"
Values(df) ==
    [r \in 1..df.nrows |->
        [c \in 1..Len(df.columns) |->
            LET x == df.columns[c].vals[r]
            IN  IF ValuesDtype(df) = "float64" THEN PyFloat(x) ELSE x]]

(* lines 165-167: row n of df.values goes to row n + 1 of the sheet *)
WriteData(ws, values) ==
    [ws EXCEPT !.cells =
        [p \in {<<n + 1, c>> : n \in 1..Len(values), c \in 1..MaxOf({Len(values[n]) : n \in 1..Len(values)})} |->
            PlainCell(values[p[1] - 1][p[2]])] @@ @]

(* lines 170-171 *)
ShouldChart(df) == Len(SelectNumber(df)) > 0 /\ df.nrows > 1

(* line 180 *)
ChartMaxRowNoMin(df) == ChartRowLimit
ChartMaxRow(df) == Min(ChartRowLimit, df.nrows + 1)

(* lines 173-183 *)
BarChart(sheet_name, df) ==
    LET min_col == ColumnIndex(df, SelectNumber(df)[1])
    IN  [title |-> "Data Overview - " \o sheet_name,
         y_axis |-> "Values",
         x_axis |-> "Records",
         data |-> [min_col |-> min_col, max_col |-> min_col,
                   min_row |-> 2, max_row |-> ChartMaxRow(df)],
         anchor |-> "H2"]

(* lines 156-185: one iteration of the loop over original_data.items() *)
OriginalSheet(sheet_name, df) ==
    LET ws == CreateSheet("Original_" \o sheet_name)
        headed == SetRow(ws, 1, [c \in 1..Len(df.columns) |-> HeaderCell(StrV(df.columns[c].name))])
        filled == WriteData(headed, Values(df))
    IN  IF ShouldChart(df)
        THEN [filled EXCEPT !.charts = Append(@, BarChart(sheet_name, df))]
        ELSE filled

(* ws.cell(value=...) raises IllegalCharacterError *)
CellRaises(df) ==
    \E c \in 1..Len(df.columns) : \E r \in 1..df.nrows : HasIllegalCharacter(df.columns[c].vals[r])

Letters == <<"A", "B", "C", "D", "E", "F", "G", "H", "I", "J">>
column_letter(c) == Letters[c]

RECURSIVE MaxLengthFrom(_, _, _, _)
(* lines 190-197, from row r on with max_length = m *)
MaxLengthFrom(ws, c, r, m) ==
    IF r > MaxRow(ws) THEN m
    ELSE LET n == PyStrLen(CellValue(ws, r, c))
         IN  MaxLengthFrom(ws, c, r + 1, IF n > m THEN n ELSE m)

(* line 198 *)
AdjustedWidthNoCap(ws, c) == MaxLengthFrom(ws, c, 1, 0) + WidthPad
AdjustedWidth(ws, c) == Min(MaxLengthFrom(ws, c, 1, 0) + WidthPad, WidthCap)

(* lines 189-199 for one sheet *)
AutoWidth(ws) ==
    [ws EXCEPT !.widths =
        LET letters == {column_letter(c) : c \in 1..MaxColumn(ws)}
        IN  [l \in letters |-> AdjustedWidth(ws, CHOOSE c \in 1..MaxColumn(ws) : column_letter(c) = l)]]

(* wb.save(output_buffer); output_buffer.getvalue() *)
SaveWorkbook(book) == [xlsx |-> book]

(* lines 101-102, 114-126: the summary is not empty, create_summary_excel starts *)
StartReport ==
    /\ pc = "loop"
    /\ i > Len(xls)
    /\ results.summary # EmptyDict
    /\ wb' = <<CreateSheet("Summary_Statistics")>>
    /\ row' = 1
    /\ j' = 1
    /\ pc' = "summary"
    /\ UNCHANGED <<req, xls, i, results, all_data, called, exc, response>>

(* line 101: the summary is empty, no workbook is created *)
SkipReport ==
    /\ pc = "loop"
    /\ i > Len(xls)
    /\ results.summary = EmptyDict
    /\ pc' = "return"
    /\ UNCHANGED <<req, xls, i, results, all_data, wb, row, j, called, exc, response>>

(* lines 127-152 *)
WriteSummaryBlock ==
    /\ pc = "summary"
    /\ j <= Len(results.summary)
    /\ LET blk == SummaryBlock(wb[1], row, results.summary[j].k, results.summary[j].v)
       IN  /\ wb' = [wb EXCEPT ![1] = blk.ws]
           /\ row' = blk.row
    /\ j' = j + 1
    /\ UNCHANGED <<pc, req, xls, i, results, all_data, called, exc, response>>

(* line 155: the loop over summary_data is over, the one over original_data starts *)
SummaryDone ==
    /\ pc = "summary"
    /\ j > Len(results.summary)
    /\ j' = 1
    /\ pc' = "original"
    /\ UNCHANGED <<req, xls, i, results, all_data, wb, row, called, exc, response>>

(* lines 155-185 *)
CopyOriginalSheet ==
    /\ pc = "original"
    /\ j <= Len(all_data)
    /\ ~CellRaises(all_data[j].v)
    /\ wb' = Append(wb, OriginalSheet(all_data[j].k, all_data[j].v))
    /\ j' = j + 1
    /\ UNCHANGED <<pc, req, xls, i, results, all_data, row, called, exc, response>>

(* line 167 raises: the exception leaves create_summary_excel and process_excel_file *)
CopyOriginalSheetFails ==
    /\ pc = "original"
    /\ j <= Len(all_data)
    /\ CellRaises(all_data[j].v)
    /\ Except(IllegalText \o " cannot be used in worksheets.")
    /\ UNCHANGED <<req, xls, i, results, all_data, wb, row, j, called>>

(* lines 187-206, 102-108 *)
FinishReport ==
    /\ pc = "original"
    /\ j > Len(all_data)
    /\ wb' = [n \in 1..Len(wb) |-> AutoWidth(wb[n])]
    /\ results' = [output_file |-> B64Encode(SaveWorkbook(wb')),
                   output_filename |-> "processed_" \o results.filename] @@ results
    /\ pc' = "return"
    /\ UNCHANGED <<req, xls, i, all_data, row, j, called, exc, response>>

(* lines 33-39 *)
MainReturn ==
    /\ pc = "return"
    /\ response' = HttpResponse(results, 200)
    /\ pc' = "done"
    /\ UNCHANGED <<req, xls, i, results, all_data, wb, row, j, called, exc>>

Next ==
    \/ MainBadJson
    \/ MainNoContent
    \/ MainBadBase64
    \/ OpenWorkbookFails
    \/ OpenWorkbook
    \/ ProcessSheet
    \/ StartReport
    \/ SkipReport
    \/ WriteSummaryBlock
    \/ SummaryDone
    \/ CopyOriginalSheet
    \/ CopyOriginalSheetFails
    \/ FinishReport
    \/ MainReturn

Spec == Init /\ [][Next]_vars

----------------------------------------------------------------------------
(* Properties *)

Messages == {"boom", "bad value"}
HasResults == "sheets_processed" \in DOMAIN results
ProcessReturned == pc = "return" \/ (pc = "done" /\ called /\ exc = NoExc)
Elems(seq) == {seq[n] : n \in 1..Len(seq)}
Occurrences(seq, x) == Cardinality({n \in 1..Len(seq) : seq[n] = x})

(* the processing of the sheet raises: on reading it, or while its statistics are computed *)
SheetRaises(sheet) ==
    sheet.raises = "read"
    \/ (sheet.raises = "stats" /\ \E c \in 1..Len(sheet.df.columns) : IsNumberDtype(sheet.df.columns[c].dtype))
NonMissing(column) == {r \in 1..Len(column.vals) : ~IsNaN(column.vals[r])}
NumericColumns(df) == {c \in 1..Len(df.columns) : IsNumberDtype(df.columns[c].dtype)}
HasNumericData(df) == \E c \in NumericColumns(df) : NonMissing(df.columns[c]) # {}
IsErrorEntryOf(entry, sheet_name) == \E m \in Messages : entry = Annotated(sheet_name, m)
SheetNamed(sheet_name) == xls[CHOOSE n \in 1..Len(xls) : xls[n].name = sheet_name]

(* C1: when process_excel_file returns, sheets_processed holds exactly one entry per   *)
(* sheet of the workbook, in workbook order: the bare name of a sheet processed without *)
(* an exception (one without numeric columns included), the annotated entry of a sheet  *)
(* that raised.                                                                         *)
C1_OneEntryPerSheet ==
    ProcessReturned =>
        /\ Len(results.sheets_processed) = Len(xls)
        /\ \A n \in 1..Len(xls) :
              results.sheets_processed[n] =
                  IF SheetRaises(xls[n]) THEN Annotated(xls[n].name, xls[n].msg) ELSE xls[n].name

(* C2: at the end of every iteration of the loop and at return, every key of summary is *)
(* a bare entry of sheets_processed, and no sheet with an ERROR entry is a key of       *)
(* summary.                                                                             *)
C2_SummaryKeysAreProcessed ==
    HasResults =>
        /\ \A key \in DictKeySet(results.summary) : key \in Elems(results.sheets_processed)
        /\ \A n \in 1..Len(xls) :
              (\E e \in Elems(results.sheets_processed) : IsErrorEntryOf(e, xls[n].name))
                  => ~DictHas(results.summary, xls[n].name)
C2_Witness ==
    /\ pc = "loop"
    /\ i <= Len(xls)
    /\ results.summary # EmptyDict
    /\ \E n \in 1..Len(xls) : Annotated(xls[n].name, xls[n].msg) \in Elems(results.sheets_processed)

RECURSIVE RunSheetsFrom(_, _, _)
(* the state after the iterations of the loop over sheets[n], sheets[n + 1], ... from st *)
RunSheetsFrom(st, sheets, n) ==
    IF n > Len(sheets) THEN st ELSE RunSheetsFrom(IterateSheet(st, sheets[n]), sheets, n + 1)
WithoutFailing(sheets) == SelectSeq(sheets, LAMBDA sh : ~SheetRaises(sh))
EmptyResults ==
    [results |-> [results EXCEPT !.sheets_processed = <<>>, !.summary = EmptyDict],
     all_data |-> EmptyDict]

(* C3: a sheet whose processing raises with message m gets exactly the entry            *)
(* "{name} (ERROR: m)", nothing in summary nor in all_data, every later sheet is still  *)
(* processed, and what is recorded for the other sheets is what the loop records for    *)
(* the workbook without the failing sheets.                                             *)
C3_FailingSheetIsolated ==
    HasResults =>
        LET done == SubSeq(xls, 1, i - 1)
            ref == RunSheetsFrom(EmptyResults, WithoutFailing(done), 1)
        IN  /\ \A n \in 1..Len(done) :
                  SheetRaises(done[n]) =>
                      /\ Occurrences(results.sheets_processed, Annotated(done[n].name, done[n].msg)) = 1
                      /\ done[n].name \notin Elems(results.sheets_processed)
                      /\ ~DictHas(results.summary, done[n].name)
                      /\ ~DictHas(all_data, done[n].name)
            /\ results.summary = ref.results.summary
            /\ all_data = ref.all_data
            /\ SelectSeq(results.sheets_processed,
                         LAMBDA e : \A n \in 1..Len(done) : ~IsErrorEntryOf(e, done[n].name))
                   = ref.results.sheets_processed
            /\ ProcessReturned => i = Len(xls) + 1
C3_Witness ==
    /\ pc = "return"
    /\ \E a, n, b \in 1..Len(xls) :
          /\ a < n /\ n < b
          /\ SheetRaises(xls[n])
          /\ Annotated(xls[n].name, xls[n].msg) \in Elems(results.sheets_processed)
          /\ DictHas(results.summary, xls[a].name)
          /\ DictHas(results.summary, xls[b].name)

(* C4: the result holds output_file (and output_filename) iff summary is not empty,     *)
(* which is the case iff at least one sheet has a numeric column with at least one      *)
(* non-missing value.                                                                   *)
C4_OutputIffNumericData ==
    ProcessReturned =>
        /\ ("output_file" \in DOMAIN results) <=> (results.summary # EmptyDict)
        /\ ("output_filename" \in DOMAIN results) <=> ("output_file" \in DOMAIN results)
        /\ (results.summary # EmptyDict)
              <=> (\E n \in 1..Len(xls) : ~SheetRaises(xls[n]) /\ HasNumericData(xls[n].df))

(* C5: a fatal error yields only {error: message}: missing or empty content is answered *)
(* without calling process_excel_file; bytes that are no workbook, and any exception    *)
(* that leaves process_excel_file, are answered with the error alone.                   *)
C5_FatalErrorOnly ==
    pc = "done" =>
        /\ (req # BadJson /\ (IsNone(req.content) \/ req.content = StrV("")))
              => /\ ~called
                 /\ DOMAIN response.body.json = {"error"}
                 /\ response.status_code = 400
        /\ (req # BadJson /\ DOMAIN req.content = {"b64"} /\ ~IsWorkbook(req.content.b64))
              => exc # NoExc
        /\ exc # NoExc
              => /\ response.body = JsonDumps([error |-> exc.raised])
                 /\ DOMAIN response.body.json = {"error"}
                 /\ response.status_code = 500
        /\ (DOMAIN response.body.json # {"error"}) => response.body = JsonDumps(results)
C5_Witness ==
    /\ pc = "done"
    /\ req # BadJson
    /\ req.content = StrV("")
    /\ ~called
    /\ response.body = JsonDumps([error |-> "No file content provided"])

(* C6: every entry of summary has count = the number of non-missing values of its       *)
(* column, count >= 1 (a numeric column of missing values only has no entry), and std   *)
(* exactly 0 when count = 1.                                                            *)
C6_CountAndSingleValueStd ==
    HasResults =>
        \A s \in 1..Len(results.summary) :
            LET df == SheetNamed(results.summary[s].k).df
                stats == results.summary[s].v
            IN  /\ \A e \in 1..Len(stats) :
                      LET n == Cardinality(NonMissing(Column(df, stats[e].k)))
                      IN  /\ stats[e].v.count = IntV(n)
                          /\ n >= 1
                          /\ n = 1 => stats[e].v.std \in {IntV(0), FloatV(0)}
                /\ \A c \in NumericColumns(df) :
                      NonMissing(df.columns[c]) = {} => ~DictHas(stats, df.columns[c].name)
C6_Witness ==
    /\ HasResults
    /\ \E s \in 1..Len(results.summary) :
          /\ \E e \in 1..Len(results.summary[s].v) :
                /\ results.summary[s].v[e].v.count = IntV(1)
                /\ results.summary[s].v[e].v.std = IntV(0)
          /\ \E c \in NumericColumns(SheetNamed(results.summary[s].k).df) :
                NonMissing(SheetNamed(results.summary[s].k).df.columns[c]) = {}

IsOriginalOf(n) == n >= 2 /\ n - 1 <= Len(all_data)
FirstNumericColumn(df) == CHOOSE c \in NumericColumns(df) : \A d \in NumericColumns(df) : c <= d

(* C7: an Original_ sheet gets a bar chart exactly when its table has a numeric column  *)
(* and at least 2 rows; the chart refers to the column of the first numeric column,     *)
(* rows 2 to min(20, rowCount + 1): at least 1 and at most 19 data rows, none beyond    *)
(* the last written data row.                                                           *)
C7_ChartRange ==
    \A n \in 1..Len(wb) :
        IsOriginalOf(n) =>
            LET df == all_data[n - 1].v
                ws == wb[n]
            IN  /\ Len(ws.charts) <= 1
                /\ (Len(ws.charts) = 1) <=> (NumericColumns(df) # {} /\ df.nrows >= 2)
                /\ Len(ws.charts) = 1 =>
                      LET data == ws.charts[1].data
                      IN  /\ data.min_col = FirstNumericColumn(df)
                          /\ data.max_col = data.min_col
                          /\ data.min_row = 2
                          /\ data.max_row = Min(20, df.nrows + 1)
                          /\ data.max_row - data.min_row + 1 >= 1
                          /\ data.max_row - data.min_row + 1 <= 19
                          /\ data.max_row <= MaxRow(ws)
                          /\ IsNumberDtype(df.columns[data.min_col].dtype)
C7_Witness ==
    \E n \in 1..Len(wb) :
        /\ IsOriginalOf(n)
        /\ Len(wb[n].charts) = 1
        /\ wb[n].charts[1].data.max_row = 20
        /\ all_data[n - 1].v.nrows > 20
        /\ wb[n].charts[1].data.min_col > 1

WidthsSet == wb # <<>> /\ (pc = "return" \/ (pc = "done" /\ exc = NoExc))

(* C8: every column of every sheet of the generated workbook has width min(L + 2, 50),  *)
(* L the greatest length of str(value) over the cells of the column from row 1 to the   *)
(* last row of the sheet, header included (the value of a cell never written is None,   *)
(* and str(None) has length 4); so every width lies between 2 and 50.                   *)
C8_ColumnWidths ==
    WidthsSet =>
        \A n \in 1..Len(wb) :
            /\ DOMAIN wb[n].widths = {column_letter(c) : c \in 1..MaxColumn(wb[n])}
            /\ \A c \in 1..MaxColumn(wb[n]) :
                  LET L == MaxOf({PyStrLen(CellValue(wb[n], r, c)) : r \in 1..MaxRow(wb[n])})
                      width == wb[n].widths[column_letter(c)]
                  IN  /\ width = Min(L + 2, 50)
                      /\ width >= 2
                      /\ width <= 50
C8_Witness ==
    /\ WidthsSet
    /\ \E n \in 1..Len(wb) : \E c \in 1..MaxColumn(wb[n]) :
          /\ wb[n].widths[column_letter(c)] = 50
          /\ \E r \in 1..MaxRow(wb[n]) : PyStrLen(CellValue(wb[n], r, c)) > 48
    /\ \E n \in 1..Len(wb) : \E c \in 1..MaxColumn(wb[n]) : wb[n].widths[column_letter(c)] < 50

RECURSIVE TitleRow(_)
(* the row of the title of the k-th block of Summary_Statistics *)
TitleRow(k) == IF k = 1 THEN 1 ELSE TitleRow(k - 1) + 5 + Len(results.summary[k - 1].v)
BlocksWritten == IF pc = "summary" THEN j - 1 ELSE IF wb # <<>> THEN Len(results.summary) ELSE 0
RowsOf(ws, r) == {p \in DOMAIN ws.cells : p[1] = r}

(* C9: the blocks of Summary_Statistics follow the order of summary without overlap: a  *)
(* block with title at row r and n columns has row r + 1 blank, its 7 headers at r + 2, *)
(* its data rows at r + 3 .. r + 2 + n in the columns' order, rows r + 3 + n and        *)
(* r + 4 + n blank, and the next title at r + 5 + n; the first title is at row 1.       *)
C9_SummaryLayout ==
    (wb # <<>> /\ HasResults) =>
        LET ws == wb[1]
        IN  /\ \A k \in 1..BlocksWritten :
                  LET r == TitleRow(k)
                      stats == results.summary[k].v
                      n == Len(stats)
                  IN  /\ RowsOf(ws, r) = {<<r, 1>>}
                      /\ CellValue(ws, r, 1) = StrV("Sheet: " \o results.summary[k].k)
                      /\ RowsOf(ws, r + 1) = {}
                      /\ RowsOf(ws, r + 2) = {<<r + 2, c>> : c \in 1..7}
                      /\ \A c \in 1..7 : CellValue(ws, r + 2, c) = StrV(headers[c])
                      /\ \A e \in 1..n :
                            /\ RowsOf(ws, r + 2 + e) = {<<r + 2 + e, c>> : c \in 1..7}
                            /\ CellValue(ws, r + 2 + e, 1) = StrV(stats[e].k)
                            /\ CellValue(ws, r + 2 + e, 7) = stats[e].v.count
                      /\ RowsOf(ws, r + 3 + n) = {}
                      /\ RowsOf(ws, r + 4 + n) = {}
            /\ pc = "summary" => row = TitleRow(BlocksWritten + 1)
            /\ \A p \in DOMAIN ws.cells : p[1] < TitleRow(BlocksWritten + 1) - 2
C9_Witness ==
    /\ wb # <<>>
    /\ pc = "original"
    /\ Len(results.summary) >= 3
    /\ Len(results.summary[1].v) = 1
    /\ Len(results.summary[2].v) = 0
    /\ CellValue(wb[1], TitleRow(3), 1) = StrV("Sheet: " \o results.summary[3].k)

(* C10: after every iteration of the loop all_data has the keys of summary, in the same *)
(* order; the generated workbook is Summary_Statistics followed by one Original_{name}  *)
(* per key of summary, with none for a sheet that raised or has no numeric column.      *)
C10_RetainedTablesMatchSummary ==
    HasResults =>
        /\ DictKeys(all_data) = DictKeys(results.summary)
        /\ WidthsSet =>
              /\ [n \in 1..Len(wb) |-> wb[n].title]
                    = <<"Summary_Statistics">>
                        \o [n \in 1..Len(results.summary) |-> "Original_" \o results.summary[n].k]
              /\ \A n \in 1..Len(xls) :
                    (SheetRaises(xls[n]) \/ NumericColumns(xls[n].df) = {})
                        => \A m \in 1..Len(wb) : wb[m].title # "Original_" \o xls[n].name
C10_Witness ==
    /\ WidthsSet
    /\ Len(wb) >= 2
    /\ \E n \in 1..Len(xls) : SheetRaises(xls[n])
    /\ \E n \in 1..Len(xls) : ~SheetRaises(xls[n]) /\ NumericColumns(xls[n].df) = {}
    /\ \E n \in 1..Len(xls) : ~SheetRaises(xls[n]) /\ ~HasNumericData(xls[n].df) /\ NumericColumns(xls[n].df) # {}

====
